---------------------------- MODULE Spec2Model ----------------------------
(***************************************************************************)
(* sqltool (src/sqltool.py): grouping of SQL statements into transactions  *)
(* (TransactionSplitter), write counting (WriteCounter) and the string     *)
(* helpers both rest on (SqlWrapper.manualsplit / manualparsetype).        *)
(*                                                                         *)
(* A Python string is a sequence of one-character strings, a statement     *)
(* list a sequence of such sequences.  Python's False is the integer 0     *)
(* (bool is a subclass of int, False == 0), None is falsy.                 *)
(***************************************************************************)
EXTENDS Integers, Sequences, FiniteSets, TLC

(***************************************************************************)
(* Bounds of the model.                                                    *)
(***************************************************************************)
\* number of statements handed to handle_statement / analyze_line in a run
MaxSteps == 4
\* length of the enumerated lines handed to manualsplit on its own
MaxLineLen == 4
\* number and size of the transactions finalized before calcstats is called
MaxSamples == 4
MaxSize == 3

(***************************************************************************)
(* Characters and the strings fed to the program.                          *)
(***************************************************************************)
\* the characters str.lstrip() / str.rstrip() remove when called without argument
Whitespace == {" ", "\t", "\n", "\r", "\f"}

kwBEGIN == <<"B", "E", "G", "I", "N">>
kwSTART == <<"S", "T", "A", "R", "T">>
kwCOMMIT == <<"C", "O", "M", "M", "I", "T">>
kwROLLBACK == <<"R", "O", "L", "L", "B", "A", "C", "K">>
kwUPDATE == <<"U", "P", "D", "A", "T", "E">>
kwINSERT == <<"I", "N", "S", "E", "R", "T">>
kwDELETE == <<"D", "E", "L", "E", "T", "E">>

\* "UPDATE t", "SELECT 1", "DELETE x"
stUpdate == kwUPDATE \o <<" ", "t">>
stSelect == <<"S", "E", "L", "E", "C", "T", " ", "1">>
stDelete == kwDELETE \o <<" ", "x">>
\* "begin", "Commit", "insert"
stBeginLower == <<"b", "e", "g", "i", "n">>
stCommitMixed == <<"C", "o", "m", "m", "i", "t">>
stInsertLower == <<"i", "n", "s", "e", "r", "t">>
\* "UPDATE\tt", "COMMIT\n", "ROLLBACK\n", "", " x"
stUpdateTab == kwUPDATE \o <<"\t", "t">>
stCommitNl == kwCOMMIT \o <<"\n">>
stRollbackNl == kwROLLBACK \o <<"\n">>
stEmpty == <<>>
stLeadingSpace == <<" ", "x">>

\* the statements a caller passes to handle_statement
Statements == {kwBEGIN, kwCOMMIT, kwROLLBACK, stUpdate, stSelect}

\* further statements, used where a classification is examined without a step
AllStatements ==
    Statements \cup {kwSTART, kwINSERT, kwDELETE, stDelete, stBeginLower, stCommitMixed,
                     stInsertLower, stUpdateTab, stCommitNl, stRollbackNl, stEmpty,
                     stLeadingSpace}

\* "START;INSERT; COMMIT\n"
lineBlock == kwSTART \o <<";">> \o kwINSERT \o <<";", " ">> \o kwCOMMIT \o <<"\n">>
\* "DELETE x;ROLLBACK\n"
lineTwo == stDelete \o <<";">> \o stRollbackNl
\* " ;;\n"
lineBlank == <<" ", ";", ";", "\n">>
\* the lines the file parser passes to its line callback
Lines == {lineBlock, lineTwo, lineBlank}

\* "SELECT 1;UPDATE t;DELETE x\n"
lineMixed == stSelect \o <<";">> \o stUpdate \o <<";">> \o stDelete \o <<"\n">>
\* the lines the file parser passes to analyze_line
AnalyzedLines == Lines \cup {lineMixed}

\* "INSERT INTO t VALUES (1);UPDATE t SET x=1;"
lineExample ==
    kwINSERT \o <<" ", "I", "N", "T", "O", " ", "t", " ", "V", "A", "L", "U", "E", "S",
                  " ", "(", "1", ")", ";">>
        \o stUpdate \o <<" ", "S", "E", "T", " ", "x", "=", "1", ";">>
\* the characters of the enumerated lines
LineChars == {"a", " ", "\t", ";", "\n"}
\* the lines manualsplit is called with on its own
BoundedLines ==
    UNION {[1..n -> LineChars] : n \in 0..MaxLineLen} \cup AnalyzedLines \cup {lineExample}

(***************************************************************************)
(* Python string methods used by SqlWrapper.                               *)
(***************************************************************************)
RECURSIVE lstrip(_)
lstrip(s) ==
    IF s # <<>> /\ Head(s) \in Whitespace THEN lstrip(Tail(s)) ELSE s

RECURSIVE rstrip(_)
rstrip(s) ==
    IF s # <<>> /\ s[Len(s)] \in Whitespace THEN rstrip(SubSeq(s, 1, Len(s) - 1)) ELSE s

\* str.split(sep) for a one-character separator: the fragments between the
\* separators, empty fragments kept, always at least one fragment
RECURSIVE split(_, _)
split(s, sep) ==
    IF \A i \in 1..Len(s) : s[i] # sep
    THEN <<s>>
    ELSE LET k == CHOOSE i \in 1..Len(s) : s[i] = sep /\ \A j \in 1..(i - 1) : s[j] # sep
         IN <<SubSeq(s, 1, k - 1)>> \o split(SubSeq(s, k + 1, Len(s)), sep)

(***************************************************************************)
(* SqlWrapper                                                              *)
(***************************************************************************)
\* manualsplit's loop testing the fragment as split left it, not stripped
RECURSIVE manualsplit_loop_nostrip(_)
manualsplit_loop_nostrip(splittedRaw) ==
    IF splittedRaw = <<>> THEN <<>>
    ELSE LET statement == Head(splittedRaw)
         IN (IF statement # <<>> THEN <<statement>> ELSE <<>>)
                \o manualsplit_loop_nostrip(Tail(splittedRaw))

\* the loop of manualsplit over splittedRaw
RECURSIVE manualsplit_loop(_)
manualsplit_loop(splittedRaw) ==
    IF splittedRaw = <<>> THEN <<>>
    ELSE LET statement == lstrip(Head(splittedRaw))
         IN (IF statement # <<>> THEN <<statement>> ELSE <<>>)
                \o manualsplit_loop(Tail(splittedRaw))

manualsplit(input) == manualsplit_loop(split(input, ";"))

manualparsetype(input) == rstrip(split(input, " ")[1])


(***************************************************************************)
(* State.                                                                  *)
(***************************************************************************)
VARIABLES
    \* TransactionSplitter: constructor parameters
    autocommit, savetransaction, transactioncallback, stats,
    \* TransactionSplitter: fields
    transactions, transactionsizes, currentTransaction, manualTransaction,
    largest, smallest, mean, std,
    \* WriteCounter: fields
    total, withwrite,
    \* main: args.base, which method is the file parser's line callback
    base,
    \* main: "reading" while readall() feeds lines, "finished" after calcstats();
    \* "split" after a call of manualsplit on its own
    pc,
    \* how the last calcstats() call ended
    calcstats_outcome,
    \* observation: the statements handle_statement has been called with
    \* (base "transaction") or analyze_line has analysed (base "statement")
    input,
    \* observation: currentTransaction at each finalize_transaction call
    finalized,
    \* observation: the argument of each transactioncallback invocation
    delivered,
    \* manualsplit called on its own: its argument and the list it returned
    rawline, splitted

config == <<autocommit, savetransaction, transactioncallback, stats, base>>
splitter == <<transactions, transactionsizes, currentTransaction, manualTransaction>>
statistics == <<largest, smallest, mean, std, calcstats_outcome>>
counter == <<total, withwrite>>
observed == <<input, finalized, delivered>>
examined == <<rawline, splitted>>
vars == <<config, splitter, statistics, counter, observed, pc, examined>>

\* Python's False, the initial value of largest, smallest, mean and std
False == 0

\* the fields handle_statement and the callback it triggers read and write
Objs ==
    [autocommit |-> autocommit, savetransaction |-> savetransaction,
     transactioncallback |-> transactioncallback, stats |-> stats,
     transactions |-> transactions, transactionsizes |-> transactionsizes,
     currentTransaction |-> currentTransaction,
     manualTransaction |-> manualTransaction,
     total |-> total, withwrite |-> withwrite,
     finalized |-> finalized, delivered |-> delivered]

(***************************************************************************)
(* WriteCounter                                                            *)
(***************************************************************************)
\* True for a write; otherwise the method falls off its end and returns
\* None, which every caller only tests for truth: FALSE here
analyze_statement(statement) ==
    LET type == manualparsetype(statement)
    IN type = kwUPDATE \/ type = kwINSERT \/ type = kwDELETE

\* analyze_transaction's loop without its break: the last statement decides
RECURSIVE analyze_transaction_loop_nobreak(_)
analyze_transaction_loop_nobreak(transaction) ==
    IF transaction = <<>> THEN FALSE
    ELSE LET write == analyze_statement(Head(transaction))
         IN IF Tail(transaction) = <<>> THEN write
            ELSE analyze_transaction_loop_nobreak(Tail(transaction))

\* the loop of analyze_transaction: the value of write when the loop ends
RECURSIVE analyze_transaction_loop(_)
analyze_transaction_loop(transaction) ==
    IF transaction = <<>> THEN FALSE
    ELSE LET write == analyze_statement(Head(transaction))
         IN IF write THEN write
            ELSE IF Tail(transaction) = <<>> THEN write
            ELSE analyze_transaction_loop(Tail(transaction))

\* analyze_transaction counting in total only the transactions without a write
analyze_transaction_elsetotal(w, transaction) ==
    IF analyze_transaction_loop(transaction)
    THEN [w EXCEPT !.withwrite = @ + 1]
    ELSE [w EXCEPT !.total = @ + 1]

analyze_transaction(w, transaction) ==
    LET write == analyze_transaction_loop(transaction)
        w1 == [w EXCEPT !.total = @ + 1]
    IN IF write THEN [w1 EXCEPT !.withwrite = @ + 1] ELSE w1

\* analyze_line's loop leaving the line at its first write, as
\* analyze_transaction's loop does
RECURSIVE analyze_line_loop_stops(_, _)
analyze_line_loop_stops(w, statements) ==
    IF statements = <<>> THEN w
    ELSE LET w1 == [w EXCEPT !.total = @ + 1]
         IN IF analyze_statement(Head(statements))
            THEN [w1 EXCEPT !.withwrite = @ + 1]
            ELSE analyze_line_loop_stops(w1, Tail(statements))

\* the loop of analyze_line over the statements of the line
RECURSIVE analyze_line_loop(_, _)
analyze_line_loop(w, statements) ==
    IF statements = <<>> THEN w
    ELSE LET w1 == [w EXCEPT !.total = @ + 1]
             w2 == IF analyze_statement(Head(statements))
                   THEN [w1 EXCEPT !.withwrite = @ + 1] ELSE w1
         IN analyze_line_loop(w2, Tail(statements))

analyze_line(w, line) == analyze_line_loop(w, manualsplit(line))

(***************************************************************************)
(* TransactionSplitter                                                     *)
(***************************************************************************)
\* finalize_transaction without the clean-up of currentTransaction
finalize_transaction_noreset(w) ==
    LET w0 == [w EXCEPT !.finalized = Append(@, w.currentTransaction)]
        w1 == IF w0.savetransaction
              THEN [w0 EXCEPT !.transactions = Append(@, w0.currentTransaction)]
              ELSE w0
        w2 == IF w1.transactioncallback
              THEN analyze_transaction(
                       [w1 EXCEPT !.delivered = Append(@, w1.currentTransaction)],
                       w1.currentTransaction)
              ELSE w1
        w3 == IF w2.stats = TRUE /\ Len(w2.currentTransaction) > 0
              THEN [w2 EXCEPT !.transactionsizes = Append(@, Len(w2.currentTransaction))]
              ELSE w2
    IN [w3 EXCEPT !.manualTransaction = FALSE]

\* finalize_transaction recording the size of empty transactions too
finalize_transaction_nozerocheck(w) ==
    LET w0 == [w EXCEPT !.finalized = Append(@, w.currentTransaction)]
        w1 == IF w0.savetransaction
              THEN [w0 EXCEPT !.transactions = Append(@, w0.currentTransaction)]
              ELSE w0
        w2 == IF w1.transactioncallback
              THEN analyze_transaction(
                       [w1 EXCEPT !.delivered = Append(@, w1.currentTransaction)],
                       w1.currentTransaction)
              ELSE w1
        w3 == IF w2.stats = TRUE
              THEN [w2 EXCEPT !.transactionsizes = Append(@, Len(w2.currentTransaction))]
              ELSE w2
    IN [w3 EXCEPT !.currentTransaction = <<>>, !.manualTransaction = FALSE]

\* finalize_transaction calling the callback for non-empty transactions only
finalize_transaction_skipempty(w) ==
    LET w0 == [w EXCEPT !.finalized = Append(@, w.currentTransaction)]
        w1 == IF w0.savetransaction
              THEN [w0 EXCEPT !.transactions = Append(@, w0.currentTransaction)]
              ELSE w0
        w2 == IF w1.transactioncallback /\ Len(w1.currentTransaction) > 0
              THEN analyze_transaction(
                       [w1 EXCEPT !.delivered = Append(@, w1.currentTransaction)],
                       w1.currentTransaction)
              ELSE w1
        w3 == IF w2.stats = TRUE /\ Len(w2.currentTransaction) > 0
              THEN [w2 EXCEPT !.transactionsizes = Append(@, Len(w2.currentTransaction))]
              ELSE w2
    IN [w3 EXCEPT !.currentTransaction = <<>>, !.manualTransaction = FALSE]

\* finalize_transaction calling the callback after the clean-up
finalize_transaction_latecallback(w) ==
    LET w0 == [w EXCEPT !.finalized = Append(@, w.currentTransaction)]
        w1 == IF w0.savetransaction
              THEN [w0 EXCEPT !.transactions = Append(@, w0.currentTransaction)]
              ELSE w0
        w2 == IF w1.stats = TRUE /\ Len(w1.currentTransaction) > 0
              THEN [w1 EXCEPT !.transactionsizes = Append(@, Len(w1.currentTransaction))]
              ELSE w1
        w3 == [w2 EXCEPT !.currentTransaction = <<>>, !.manualTransaction = FALSE]
    IN IF w3.transactioncallback
       THEN analyze_transaction(
                [w3 EXCEPT !.delivered = Append(@, w3.currentTransaction)],
                w3.currentTransaction)
       ELSE w3

\* finalize_transaction leaving manualTransaction as it is
finalize_transaction_keepmanual(w) ==
    LET w0 == [w EXCEPT !.finalized = Append(@, w.currentTransaction)]
        w1 == IF w0.savetransaction
              THEN [w0 EXCEPT !.transactions = Append(@, w0.currentTransaction)]
              ELSE w0
        w2 == IF w1.transactioncallback
              THEN analyze_transaction(
                       [w1 EXCEPT !.delivered = Append(@, w1.currentTransaction)],
                       w1.currentTransaction)
              ELSE w1
        w3 == IF w2.stats = TRUE /\ Len(w2.currentTransaction) > 0
              THEN [w2 EXCEPT !.transactionsizes = Append(@, Len(w2.currentTransaction))]
              ELSE w2
    IN [w3 EXCEPT !.currentTransaction = <<>>]

\* finalize_transaction emptying the finalized list in place (del list[:])
\* instead of binding currentTransaction to a new list: the retained entry
\* is that same list
finalize_transaction_clearsinplace(w) ==
    LET w0 == [w EXCEPT !.finalized = Append(@, w.currentTransaction)]
        w1 == IF w0.savetransaction
              THEN [w0 EXCEPT !.transactions = Append(@, <<>>)]
              ELSE w0
        w2 == IF w1.transactioncallback
              THEN analyze_transaction(
                       [w1 EXCEPT !.delivered = Append(@, w1.currentTransaction)],
                       w1.currentTransaction)
              ELSE w1
        w3 == IF w2.stats = TRUE /\ Len(w2.currentTransaction) > 0
              THEN [w2 EXCEPT !.transactionsizes = Append(@, Len(w2.currentTransaction))]
              ELSE w2
    IN [w3 EXCEPT !.currentTransaction = <<>>, !.manualTransaction = FALSE]

finalize_transaction(w) ==
    LET w0 == [w EXCEPT !.finalized = Append(@, w.currentTransaction)]
        w1 == IF w0.savetransaction
              THEN [w0 EXCEPT !.transactions = Append(@, w0.currentTransaction)]
              ELSE w0
        w2 == IF w1.transactioncallback
              THEN analyze_transaction(
                       [w1 EXCEPT !.delivered = Append(@, w1.currentTransaction)],
                       w1.currentTransaction)
              ELSE w1
        w3 == IF w2.stats = TRUE /\ Len(w2.currentTransaction) > 0
              THEN [w2 EXCEPT !.transactionsizes = Append(@, Len(w2.currentTransaction))]
              ELSE w2
    IN [w3 EXCEPT !.currentTransaction = <<>>, !.manualTransaction = FALSE]

\* handle_statement in which BEGIN and START open no manual transaction
handle_statement_nobegin(w, statement) ==
    LET type == manualparsetype(statement)
    IN IF type = kwBEGIN \/ type = kwSTART
       THEN w
       ELSE IF type = kwCOMMIT \/ type = kwROLLBACK
       THEN finalize_transaction(w)
       ELSE LET w1 == [w EXCEPT !.currentTransaction = Append(@, statement)]
            IN IF w1.autocommit /\ ~w1.manualTransaction
               THEN finalize_transaction(w1)
               ELSE w1

\* handle_statement in which ROLLBACK discards the pending statements
handle_statement_rollbackdiscards(w, statement) ==
    LET type == manualparsetype(statement)
    IN IF type = kwBEGIN \/ type = kwSTART
       THEN [w EXCEPT !.manualTransaction = TRUE]
       ELSE IF type = kwCOMMIT
       THEN finalize_transaction(w)
       ELSE IF type = kwROLLBACK
       THEN [w EXCEPT !.currentTransaction = <<>>, !.manualTransaction = FALSE]
       ELSE LET w1 == [w EXCEPT !.currentTransaction = Append(@, statement)]
            IN IF w1.autocommit /\ ~w1.manualTransaction
               THEN finalize_transaction(w1)
               ELSE w1

\* handle_statement finalizing after every data statement outside a manual
\* transaction, whatever autocommit is
handle_statement_noautocommitcheck(w, statement) ==
    LET type == manualparsetype(statement)
    IN IF type = kwBEGIN \/ type = kwSTART
       THEN [w EXCEPT !.manualTransaction = TRUE]
       ELSE IF type = kwCOMMIT \/ type = kwROLLBACK
       THEN finalize_transaction(w)
       ELSE LET w1 == [w EXCEPT !.currentTransaction = Append(@, statement)]
            IN IF ~w1.manualTransaction
               THEN finalize_transaction(w1)
               ELSE w1

\* handle_statement in which BEGIN and START commit what is pending
handle_statement_beginfinalizes(w, statement) ==
    LET type == manualparsetype(statement)
    IN IF type = kwBEGIN \/ type = kwSTART
       THEN [(IF w.currentTransaction # <<>> THEN finalize_transaction(w) ELSE w)
                EXCEPT !.manualTransaction = TRUE]
       ELSE IF type = kwCOMMIT \/ type = kwROLLBACK
       THEN finalize_transaction(w)
       ELSE LET w1 == [w EXCEPT !.currentTransaction = Append(@, statement)]
            IN IF w1.autocommit /\ ~w1.manualTransaction
               THEN finalize_transaction(w1)
               ELSE w1

\* handle_statement in which BEGIN and START start from an empty transaction
handle_statement_beginresets(w, statement) ==
    LET type == manualparsetype(statement)
    IN IF type = kwBEGIN \/ type = kwSTART
       THEN [w EXCEPT !.manualTransaction = TRUE, !.currentTransaction = <<>>]
       ELSE IF type = kwCOMMIT \/ type = kwROLLBACK
       THEN finalize_transaction(w)
       ELSE LET w1 == [w EXCEPT !.currentTransaction = Append(@, statement)]
            IN IF w1.autocommit /\ ~w1.manualTransaction
               THEN finalize_transaction(w1)
               ELSE w1

\* handle_statement with the test of manualTransaction inverted
handle_statement_inverted(w, statement) ==
    LET type == manualparsetype(statement)
    IN IF type = kwBEGIN \/ type = kwSTART
       THEN [w EXCEPT !.manualTransaction = TRUE]
       ELSE IF type = kwCOMMIT \/ type = kwROLLBACK
       THEN finalize_transaction(w)
       ELSE LET w1 == [w EXCEPT !.currentTransaction = Append(@, statement)]
            IN IF w1.autocommit /\ w1.manualTransaction
               THEN finalize_transaction(w1)
               ELSE w1

handle_statement(w, statement) ==
    LET type == manualparsetype(statement)
    IN IF type = kwBEGIN \/ type = kwSTART
       THEN [w EXCEPT !.manualTransaction = TRUE]
       ELSE IF type = kwCOMMIT \/ type = kwROLLBACK
       THEN finalize_transaction(w)
       ELSE LET w1 == [w EXCEPT !.currentTransaction = Append(@, statement)]
            IN IF w1.autocommit /\ ~w1.manualTransaction
               THEN finalize_transaction(w1)
               ELSE w1

\* the loop of execute_line over the statements of the line
RECURSIVE execute_line_loop(_, _)
execute_line_loop(w, statements) ==
    IF statements = <<>> THEN w
    ELSE execute_line_loop(handle_statement(w, Head(statements)), Tail(statements))

execute_line(w, line) == execute_line_loop(w, manualsplit(line))

\* calcstats' first loop comparing without the tests for the unset extreme
RECURSIVE calcstats_extremes_nosentinel(_, _)
calcstats_extremes_nosentinel(values, acc) ==
    IF values = <<>> THEN acc
    ELSE LET value == Head(values)
             l == IF value > acc.largest THEN value ELSE acc.largest
             s == IF value < acc.smallest THEN value ELSE acc.smallest
         IN calcstats_extremes_nosentinel(Tail(values),
                [sum |-> acc.sum + value, largest |-> l, smallest |-> s])

\* the first loop of calcstats: sum, largest and smallest after the samples
RECURSIVE calcstats_extremes(_, _)
calcstats_extremes(values, acc) ==
    IF values = <<>> THEN acc
    ELSE LET value == Head(values)
             l == IF acc.largest = False \/ value > acc.largest
                  THEN value ELSE acc.largest
             s == IF acc.smallest = False \/ value < acc.smallest
                  THEN value ELSE acc.smallest
         IN calcstats_extremes(Tail(values),
                [sum |-> acc.sum + value, largest |-> l, smallest |-> s])

\* the second loop of calcstats: the sum of (mean - value)**2 with
\* mean = sum/n, as the numerator over the denominator n*n
RECURSIVE calcstats_squares(_, _, _)
calcstats_squares(values, sum, n) ==
    IF values = <<>> THEN 0
    ELSE (sum - n * Head(values)) * (sum - n * Head(values))
            + calcstats_squares(Tail(values), sum, n)

\* The fields after calcstats and how the call ended.  mean is the exact
\* quotient num/den, std the square root of the quotient num/den.
calcstats(sizes, old) ==
    IF Len(sizes) = 0
    THEN [old EXCEPT !.outcome = "returned (False, False)"]
    ELSE LET n == Len(sizes)
             e == calcstats_extremes(sizes, [sum |-> 0, largest |-> False, smallest |-> False])
             m == [num |-> e.sum, den |-> n]
         IN IF n - 1 = 0
            THEN [largest |-> e.largest, smallest |-> e.smallest, mean |-> m,
                  std |-> old.std, outcome |-> "ZeroDivisionError"]
            ELSE [largest |-> e.largest, smallest |-> e.smallest, mean |-> m,
                  std |-> [num |-> calcstats_squares(sizes, e.sum, n),
                           den |-> n * n * (n - 1)],
                  outcome |-> "returned None"]

(***************************************************************************)
(* Initial state: the objects main constructs, before the first line.      *)
(***************************************************************************)
InitObjects ==
    /\ autocommit \in BOOLEAN
    /\ savetransaction \in BOOLEAN
    /\ transactioncallback \in BOOLEAN
    /\ stats \in BOOLEAN
    /\ base \in {"transaction", "statement"}
    /\ transactions = <<>>
    /\ transactionsizes = <<>>
    /\ currentTransaction = <<>>
    /\ manualTransaction = FALSE
    /\ largest = False
    /\ smallest = False
    /\ mean = [num |-> False, den |-> 1]
    /\ std = [num |-> False, den |-> 1]
    /\ total = 0
    /\ withwrite = 0
    /\ pc = "reading"
    /\ calcstats_outcome = "not called"
    /\ input = <<>>
    /\ finalized = <<>>
    /\ delivered = <<>>

Init ==
    /\ InitObjects
    /\ rawline = <<>>
    /\ splitted = <<>>

(***************************************************************************)
(* Actions.                                                                *)
(***************************************************************************)
\* the variables take the fields of w
Becomes(w) ==
    /\ transactions' = w.transactions
    /\ transactionsizes' = w.transactionsizes
    /\ currentTransaction' = w.currentTransaction
    /\ manualTransaction' = w.manualTransaction
    /\ total' = w.total
    /\ withwrite' = w.withwrite
    /\ finalized' = w.finalized
    /\ delivered' = w.delivered

\* a caller hands one statement to TransactionSplitter.handle_statement
HandleStatement(statement) ==
    /\ pc = "reading"
    /\ base = "transaction"
    /\ Len(input) < MaxSteps
    /\ Becomes(handle_statement(Objs, statement))
    /\ input' = Append(input, statement)
    /\ UNCHANGED <<config, statistics, pc, examined>>

\* the file parser hands one line to TransactionSplitter.execute_line
ExecuteLine(line) ==
    /\ pc = "reading"
    /\ base = "transaction"
    /\ Len(input) + Len(manualsplit(line)) <= MaxSteps
    /\ Becomes(execute_line(Objs, line))
    /\ input' = input \o manualsplit(line)
    /\ UNCHANGED <<config, statistics, pc, examined>>

\* the file parser hands one line to WriteCounter.analyze_line
AnalyzeLine(line) ==
    /\ pc = "reading"
    /\ base = "statement"
    /\ Len(input) + Len(manualsplit(line)) <= MaxSteps
    /\ Becomes(analyze_line(Objs, line))
    /\ input' = input \o manualsplit(line)
    /\ UNCHANGED <<config, statistics, pc, examined>>

\* main calls TransactionSplitter.calcstats after the last line
Calcstats ==
    /\ pc = "reading"
    /\ base = "transaction"
    /\ LET r == calcstats(transactionsizes,
                    [largest |-> largest, smallest |-> smallest, mean |-> mean,
                     std |-> std, outcome |-> calcstats_outcome])
       IN /\ largest' = r.largest
          /\ smallest' = r.smallest
          /\ mean' = r.mean
          /\ std' = r.std
          /\ calcstats_outcome' = r.outcome
    /\ pc' = "finished"
    /\ UNCHANGED <<config, splitter, counter, observed, examined>>

Next ==
    \/ \E statement \in Statements : HandleStatement(statement)
    \/ \E line \in Lines : ExecuteLine(line)
    \/ \E line \in AnalyzedLines : AnalyzeLine(line)
    \/ Calcstats

Spec == Init /\ [][Next]_vars

(***************************************************************************)
(* SqlWrapper.manualsplit on its own: a caller passes one line and keeps   *)
(* the list returned.                                                      *)
(***************************************************************************)
InitSplit ==
    /\ InitObjects
    /\ autocommit /\ ~savetransaction /\ ~transactioncallback /\ stats
    /\ base = "transaction"
    /\ rawline \in BoundedLines
    /\ splitted = <<>>

Manualsplit ==
    /\ pc = "reading"
    /\ splitted' = manualsplit(rawline)
    /\ pc' = "split"
    /\ UNCHANGED <<config, splitter, statistics, counter, observed, rawline>>

NextSplit == Manualsplit

SpecSplit == InitSplit /\ [][NextSplit]_vars

(***************************************************************************)
(* calcstats after a run without autocommit: the splitter as main wires it *)
(* for the write ratio has handled, for each of some sizes, that many data *)
(* statements and a COMMIT.                                                *)
(***************************************************************************)
SampleSets == UNION {[1..n -> 1..MaxSize] : n \in 1..MaxSamples}

RECURSIVE InputFor(_)
InputFor(sizes) ==
    IF sizes = <<>> THEN <<>>
    ELSE [i \in 1..Head(sizes) |-> stSelect] \o <<kwCOMMIT>> \o InputFor(Tail(sizes))

StatsStart ==
    [autocommit |-> FALSE, savetransaction |-> FALSE,
     transactioncallback |-> TRUE, stats |-> TRUE,
     transactions |-> <<>>, transactionsizes |-> <<>>,
     currentTransaction |-> <<>>, manualTransaction |-> FALSE,
     total |-> 0, withwrite |-> 0, finalized |-> <<>>, delivered |-> <<>>]

InitStats ==
    \E sizes \in SampleSets :
        LET w == execute_line_loop(StatsStart, InputFor(sizes))
        IN /\ autocommit = w.autocommit
           /\ savetransaction = w.savetransaction
           /\ transactioncallback = w.transactioncallback
           /\ stats = w.stats
           /\ base = "transaction"
           /\ transactions = w.transactions
           /\ transactionsizes = w.transactionsizes
           /\ currentTransaction = w.currentTransaction
           /\ manualTransaction = w.manualTransaction
           /\ total = w.total
           /\ withwrite = w.withwrite
           /\ finalized = w.finalized
           /\ delivered = w.delivered
           /\ input = InputFor(sizes)
           /\ largest = False
           /\ smallest = False
           /\ mean = [num |-> False, den |-> 1]
           /\ std = [num |-> False, den |-> 1]
           /\ pc = "reading"
           /\ calcstats_outcome = "not called"
           /\ rawline = <<>>
           /\ splitted = <<>>

NextStats == Calcstats

SpecStats == InitStats /\ [][NextStats]_vars

(***************************************************************************)
(* Vocabulary of the properties.                                           *)
(***************************************************************************)
IsBegin(statement) == manualparsetype(statement) \in {kwBEGIN, kwSTART}
IsEnd(statement) == manualparsetype(statement) \in {kwCOMMIT, kwROLLBACK}
IsData(statement) == ~IsBegin(statement) /\ ~IsEnd(statement)
IsWrite(statement) == manualparsetype(statement) \in {kwUPDATE, kwINSERT, kwDELETE}
NonEmpty(transaction) == transaction # <<>>
HasWrite(transaction) == \E i \in 1..Len(transaction) : IsWrite(transaction[i])

\* the statements of a list of transactions, in order
RECURSIVE Flatten(_)
Flatten(list) == IF list = <<>> THEN <<>> ELSE Head(list) \o Flatten(Tail(list))

\* how many elements of a list satisfy a test
Count(list, Test(_)) == Len(SelectSeq(list, Test))

(***************************************************************************)
(* C1: with autocommit, after BEGIN (or START) and then only data          *)
(* statements nothing has been finalized; once the COMMIT that follows     *)
(* n >= 1 data statements is handled, exactly one transaction has been     *)
(* finalized and it holds those n statements (its recorded size is n).     *)
(***************************************************************************)
C1_BlockIsOneTransaction ==
    (autocommit /\ base = "transaction") =>
        LET n == Len(input)
        IN /\ (/\ n >= 1
               /\ IsBegin(input[1])
               /\ \A i \in 2..n : IsData(input[i]))
                  => finalized = <<>> /\ transactionsizes = <<>> /\ total = 0
           /\ (/\ n >= 3
               /\ IsBegin(input[1])
               /\ \A i \in 2..(n - 1) : IsData(input[i])
               /\ manualparsetype(input[n]) = kwCOMMIT)
                  => /\ finalized = <<SubSeq(input, 2, n - 1)>>
                     /\ Len(finalized[1]) = n - 2
                     /\ stats => transactionsizes = <<n - 2>>

C1_Witness ==
    /\ autocommit
    /\ input = <<kwBEGIN, stUpdate, stSelect, kwCOMMIT>>
    /\ finalized = << <<stUpdate, stSelect>> >>

(***************************************************************************)
(* C2: with autocommit and no BEGIN/START in the input, the k data         *)
(* statements handled so far have produced k finalized transactions of     *)
(* size 1, one per statement and in order, nothing is pending, and the     *)
(* sample set is k ones.  (A COMMIT or ROLLBACK in such an input finalizes *)
(* an empty transaction, which is no transaction of a data statement.)     *)
(***************************************************************************)
C2_AutocommitSingletons ==
    (/\ autocommit
     /\ base = "transaction"
     /\ \A i \in 1..Len(input) : ~IsBegin(input[i]))
        => LET data == SelectSeq(input, IsData)
               k == Len(data)
           IN /\ SelectSeq(finalized, NonEmpty) = [i \in 1..k |-> <<data[i]>>]
              /\ Len(finalized) = Len(input)
              /\ currentTransaction = <<>>
              /\ stats => transactionsizes = [i \in 1..k |-> 1]

C2_Witness ==
    /\ autocommit
    /\ stats
    /\ input = <<stUpdate, stSelect, stUpdate>>
    /\ transactionsizes = <<1, 1, 1>>
    /\ Len(finalized) = 3

(***************************************************************************)
(* C3: withwrite <= total in every state; total is the number of units     *)
(* analysed (transactions handed to analyze_transaction, or statements     *)
(* analysed by analyze_line), so it grows by 1 per unit; no step decreases *)
(* either counter.                                                         *)
(***************************************************************************)
Units == IF base = "statement" THEN Len(input) ELSE Len(delivered)

C3_CountersOrdered ==
    /\ [](withwrite <= total /\ withwrite >= 0 /\ total = Units)
    /\ [][/\ total' >= total
          /\ withwrite' >= withwrite
          /\ total' - total = Units' - Units]_vars

C3_Witness ==
    /\ base = "transaction"
    /\ transactioncallback
    /\ total = 3
    /\ withwrite = 1

(***************************************************************************)
(* C4: withwrite counts exactly the transactions handed to                 *)
(* analyze_transaction that hold a write statement at any position; an     *)
(* empty transaction is never counted.                                     *)
(***************************************************************************)
C4_WriteIffSomeStatementWrites ==
    (base = "transaction") =>
        /\ withwrite = Count(delivered, HasWrite)
        /\ \A i \in 1..Len(delivered) :
              LET before == [Objs EXCEPT !.withwrite = 0]
                  after == analyze_transaction(before, delivered[i])
              IN /\ after.withwrite = 1 <=> HasWrite(delivered[i])
                 /\ delivered[i] = <<>> => after.withwrite = 0

C4_Witness ==
    /\ delivered = << <<stSelect, stUpdate, stSelect>> >>
    /\ withwrite = 1

(***************************************************************************)
(* C5: with stats enabled, transactionsizes holds, for each finalization   *)
(* of a non-empty transaction, the number of data statements handled since *)
(* the finalization before it, and so only values > 0, whatever autocommit *)
(* is.  ExpectedSizes counts the data statements of the input between the  *)
(* finalization points: a COMMIT or ROLLBACK, or, with autocommit and no   *)
(* open BEGIN/START, each data statement.                                  *)
(***************************************************************************)
RECURSIVE ExpectedSizes(_, _, _)
ExpectedSizes(statements, pending, manual) ==
    IF statements = <<>> THEN <<>>
    ELSE LET s == Head(statements)
             rest == Tail(statements)
         IN IF IsBegin(s) THEN ExpectedSizes(rest, pending, TRUE)
            ELSE IF IsEnd(s)
            THEN (IF pending > 0 THEN <<pending>> ELSE <<>>) \o ExpectedSizes(rest, 0, FALSE)
            ELSE IF autocommit /\ ~manual
            THEN <<pending + 1>> \o ExpectedSizes(rest, 0, FALSE)
            ELSE ExpectedSizes(rest, pending + 1, manual)

C5_SizesCountDataStatements ==
    (stats /\ base = "transaction") =>
        /\ transactionsizes = ExpectedSizes(input, 0, FALSE)
        /\ \A i \in 1..Len(transactionsizes) : transactionsizes[i] > 0

C5_Witness ==
    /\ stats
    /\ ~autocommit
    /\ input = <<stSelect, stUpdate, kwCOMMIT, kwROLLBACK>>
    /\ transactionsizes = <<2>>

(***************************************************************************)
(* C6: with analyze_transaction as the transaction callback, a COMMIT or   *)
(* ROLLBACK handled while currentTransaction is empty leaves               *)
(* transactionsizes and withwrite as they are and adds 1 to total; so      *)
(* total is the number of finalizations, len(transactionsizes) <= total,   *)
(* and with stats enabled (as main constructs the splitter) the difference *)
(* is the number of empty finalizations.                                   *)
(***************************************************************************)
IsEmpty(transaction) == transaction = <<>>

C6_EmptyFinalizationsCounted ==
    /\ []((base = "transaction" /\ transactioncallback) =>
            /\ total = Len(finalized)
            /\ Len(transactionsizes) <= total
            /\ withwrite <= Count(finalized, NonEmpty)
            /\ stats => total - Len(transactionsizes) = Count(finalized, IsEmpty))
    /\ [][(/\ base = "transaction"
           /\ transactioncallback
           /\ currentTransaction = <<>>
           /\ Len(input') = Len(input) + 1
           /\ IsEnd(input'[Len(input')]))
              => /\ transactionsizes' = transactionsizes
                 /\ total' = total + 1
                 /\ withwrite' = withwrite]_vars

C6_Witness ==
    /\ transactioncallback
    /\ stats
    /\ input = <<stUpdate, kwCOMMIT, kwROLLBACK>>
    /\ total = 3
    /\ withwrite = 1
    /\ transactionsizes = <<1>>

(***************************************************************************)
(* C7: COMMIT and ROLLBACK are interchangeable.  In every reachable state  *)
(* handling a ROLLBACK gives the very state handling a COMMIT gives (the   *)
(* same finalized, delivered and retained transactions, transactionsizes,  *)
(* total, withwrite, currentTransaction and manualTransaction), so that    *)
(* replacing any of them in a sequence changes no state along the run;     *)
(* and handling, from the initial objects, the input with each COMMIT and  *)
(* ROLLBACK replaced by the other gives the state the input gave.  After a *)
(* ROLLBACK nothing is pending and every data statement handled so far is  *)
(* in a finalized transaction: none was discarded.                         *)
(***************************************************************************)
InitialObjs ==
    [Objs EXCEPT !.transactions = <<>>, !.transactionsizes = <<>>,
                 !.currentTransaction = <<>>, !.manualTransaction = FALSE,
                 !.total = 0, !.withwrite = 0,
                 !.finalized = <<>>, !.delivered = <<>>]

SwapEnd(statement) ==
    IF statement = kwCOMMIT THEN kwROLLBACK
    ELSE IF statement = kwROLLBACK THEN kwCOMMIT
    ELSE IF statement = stCommitNl THEN stRollbackNl
    ELSE IF statement = stRollbackNl THEN stCommitNl
    ELSE statement

Swapped(statements) == [i \in 1..Len(statements) |-> SwapEnd(statements[i])]

C7_CommitRollbackAlike ==
    (base = "transaction") =>
        /\ handle_statement(Objs, kwROLLBACK) = handle_statement(Objs, kwCOMMIT)
        /\ handle_statement(Objs, stRollbackNl) = handle_statement(Objs, stCommitNl)
        /\ execute_line_loop(InitialObjs, Swapped(input)) = Objs
        /\ (input # <<>> /\ manualparsetype(input[Len(input)]) = kwROLLBACK)
              => /\ currentTransaction = <<>>
                 /\ Flatten(finalized) = SelectSeq(input, IsData)

C7_Witness ==
    /\ transactioncallback
    /\ stats
    /\ input = <<kwBEGIN, stUpdate, stSelect, kwROLLBACK>>
    /\ delivered = << <<stUpdate, stSelect>> >>
    /\ transactionsizes = <<2>>
    /\ withwrite = 1

(***************************************************************************)
(* C8: a registered callback has been invoked once per finalization, in    *)
(* finalization order, each time with the transaction being finalized (an  *)
(* unregistered one never); the finalized transactions followed by the     *)
(* pending one are the data statements of the input in arrival order; and  *)
(* no BEGIN, START, COMMIT or ROLLBACK statement is in a delivered, a      *)
(* retained or the pending transaction.                                    *)
(***************************************************************************)
OnlyData(transaction) == \A i \in 1..Len(transaction) : IsData(transaction[i])

C8_CallbackOncePerFinalization ==
    (base = "transaction") =>
        /\ delivered = (IF transactioncallback THEN finalized ELSE <<>>)
        /\ transactions = (IF savetransaction THEN finalized ELSE <<>>)
        /\ Flatten(finalized) \o currentTransaction = SelectSeq(input, IsData)
        /\ \A i \in 1..Len(delivered) : OnlyData(delivered[i])
        /\ \A i \in 1..Len(transactions) : OnlyData(transactions[i])
        /\ OnlyData(currentTransaction)

C8_Witness ==
    /\ transactioncallback
    /\ savetransaction
    /\ ~autocommit
    /\ input = <<stSelect, kwCOMMIT, kwBEGIN, stUpdate>>
    /\ delivered = << <<stSelect>> >>
    /\ transactions = delivered
    /\ currentTransaction = <<stUpdate>>

(***************************************************************************)
(* C9: keyword matching is case-insensitive: handle_statement and          *)
(* analyze_statement treat a statement as they treat the statement in      *)
(* upper case (the same effect on manualTransaction, on the number of      *)
(* pending and of finalized statements, on transactionsizes, total and     *)
(* withwrite; the same verdict on being a write).                          *)
(***************************************************************************)
\* str.upper() on the letters of the statements above
UpperChar(c) ==
    CASE c = "b" -> "B" [] c = "c" -> "C" [] c = "e" -> "E" [] c = "g" -> "G"
      [] c = "i" -> "I" [] c = "m" -> "M" [] c = "n" -> "N" [] c = "o" -> "O"
      [] c = "r" -> "R" [] c = "s" -> "S" [] c = "t" -> "T" [] c = "x" -> "X"
      [] OTHER -> c

upper(s) == [i \in 1..Len(s) |-> UpperChar(s[i])]

Effects(w) ==
    <<w.manualTransaction, Len(w.currentTransaction), w.transactionsizes,
      [i \in 1..Len(w.finalized) |-> Len(w.finalized[i])], w.total, w.withwrite>>

C9_CaseInsensitive ==
    \A s \in AllStatements :
        /\ Effects(handle_statement(Objs, s)) = Effects(handle_statement(Objs, upper(s)))
        /\ analyze_statement(s) = analyze_statement(upper(s))

(***************************************************************************)
(* C10: calcstats never fails: it ends without an exception; with no       *)
(* sample it leaves largest, smallest, mean and std unset; with one sample *)
(* it completes and std is 0 (or unset).                                   *)
(***************************************************************************)
C10_CalcstatsNeverFails ==
    (pc = "finished") =>
        /\ calcstats_outcome # "ZeroDivisionError"
        /\ (Len(transactionsizes) = 0) =>
              /\ largest = False /\ smallest = False
              /\ mean.num = False /\ std.num = False
        /\ (Len(transactionsizes) = 1) =>
              /\ calcstats_outcome = "returned None"
              /\ std.num = 0

(***************************************************************************)
(* C11: in statement-based analysis total is the number of statements the  *)
(* splitter produced over all lines analysed and withwrite the number of   *)
(* those whose type is UPDATE, INSERT or DELETE; BEGIN, START, COMMIT and  *)
(* ROLLBACK statements are units like any other and never writes, and no   *)
(* transaction is formed.  SELECT, UPDATE, DELETE: total 3, withwrite 2.   *)
(***************************************************************************)
C11_StatementCounts ==
    (base = "statement") =>
        /\ total = Len(input)
        /\ withwrite = Count(input, IsWrite)
        /\ withwrite <= Len(input) - Count(input, IsBegin) - Count(input, IsEnd)
        /\ finalized = <<>> /\ currentTransaction = <<>> /\ ~manualTransaction
        /\ (input = manualsplit(lineMixed)) => (total = 3 /\ withwrite = 2)

C11_Witness ==
    /\ base = "statement"
    /\ input = <<stSelect, stUpdate, stDelete \o <<"\n">> >>
    /\ total = 3
    /\ withwrite = 2

(***************************************************************************)
(* C12: manualsplit returns, in order, the fragments between the ';' of    *)
(* the line, each without its leading whitespace, leaving out those that   *)
(* are then empty.  No returned statement is empty, holds a ';' or starts  *)
(* with whitespace; a line of whitespace and ';' only gives no statement;  *)
(* a line without ';' that is not blank gives one.                         *)
(***************************************************************************)
SemiPositions(l) == {i \in 1..Len(l) : l[i] = ";"}

\* the position of the k-th ';' of l; 0 before the first, Len(l) + 1 after the last
Cut(l, k) ==
    IF k = 0 THEN 0
    ELSE IF k > Cardinality(SemiPositions(l)) THEN Len(l) + 1
    ELSE CHOOSE i \in SemiPositions(l) :
            Cardinality({j \in SemiPositions(l) : j <= i}) = k

Fragments(l) ==
    [k \in 1..(Cardinality(SemiPositions(l)) + 1) |->
        SubSeq(l, Cut(l, k - 1) + 1, Cut(l, k) - 1)]

StripLeading(f) ==
    LET solid == {i \in 1..Len(f) : f[i] \notin Whitespace}
    IN IF solid = {} THEN <<>>
       ELSE SubSeq(f, CHOOSE i \in solid : \A j \in solid : i <= j, Len(f))

ExpectedStatements(l) ==
    LET fragments == Fragments(l)
    IN SelectSeq([k \in 1..Len(fragments) |-> StripLeading(fragments[k])], NonEmpty)

C12_SplitAtSemicolons ==
    (pc = "split") =>
        /\ splitted = ExpectedStatements(rawline)
        /\ \A i \in 1..Len(splitted) :
              /\ splitted[i] # <<>>
              /\ \A j \in 1..Len(splitted[i]) : splitted[i][j] # ";"
              /\ splitted[i][1] \notin Whitespace
        /\ (\A i \in 1..Len(rawline) : rawline[i] \in Whitespace \cup {";"})
              => splitted = <<>>
        /\ (/\ SemiPositions(rawline) = {}
            /\ \E i \in 1..Len(rawline) : rawline[i] \notin Whitespace)
              => Len(splitted) = 1

C12_Witness ==
    /\ pc = "split"
    /\ rawline = lineExample
    /\ splitted = <<SubSeq(lineExample, 1, 24), SubSeq(lineExample, 26, 41)>>

(***************************************************************************)
(* C13: with autocommit disabled handling a data statement finalizes       *)
(* nothing, it only makes the statement pending; the finalized             *)
(* transactions are, one per COMMIT or ROLLBACK handled, the data          *)
(* statements since the boundary before, whether a BEGIN/START was among   *)
(* them or not.                                                            *)
(***************************************************************************)
\* the data statements of the input, grouped at its COMMITs and ROLLBACKs
RECURSIVE Groups(_, _)
Groups(statements, pending) ==
    IF statements = <<>> THEN <<>>
    ELSE LET s == Head(statements)
         IN IF IsEnd(s) THEN <<pending>> \o Groups(Tail(statements), <<>>)
            ELSE IF IsBegin(s) THEN Groups(Tail(statements), pending)
            ELSE Groups(Tail(statements), Append(pending, s))

C13_NoAutocommitOnlyBoundariesFinalize ==
    /\ []((~autocommit /\ base = "transaction") =>
            /\ Len(finalized) = Count(input, IsEnd)
            /\ finalized = Groups(input, <<>>))
    /\ [][(/\ ~autocommit
           /\ Len(input') = Len(input) + 1
           /\ IsData(input'[Len(input')]))
              => /\ finalized' = finalized
                 /\ delivered' = delivered
                 /\ transactions' = transactions
                 /\ transactionsizes' = transactionsizes
                 /\ total' = total
                 /\ currentTransaction' = Append(currentTransaction, input'[Len(input')])]_vars

C13_Witness ==
    /\ ~autocommit
    /\ input = <<stUpdate, kwBEGIN, stSelect, kwCOMMIT>>
    /\ finalized = << <<stUpdate, stSelect>> >>

(***************************************************************************)
(* C14.  As claimed: a finalization of an empty currentTransaction (a      *)
(* COMMIT or ROLLBACK handled while nothing is pending) changes nothing in *)
(* the splitter but currentTransaction = [] and manualTransaction = False: *)
(* transactionsizes and the retained transactions list stay as they are.   *)
(***************************************************************************)
EmptyFinalization ==
    /\ base = "transaction"
    /\ currentTransaction = <<>>
    /\ Len(input') = Len(input) + 1
    /\ IsEnd(input'[Len(input')])

C14_EmptyFinalizeChangesNothing ==
    [][EmptyFinalization =>
          /\ transactionsizes' = transactionsizes
          /\ transactions' = transactions
          /\ currentTransaction' = <<>>
          /\ manualTransaction' = FALSE]_vars

(***************************************************************************)
(* C14 as amended: such a finalization leaves transactionsizes as it is,   *)
(* sets currentTransaction = [] and manualTransaction = False, and leaves  *)
(* the retained list as it is only when retention is disabled; with        *)
(* retention enabled it appends one empty transaction, so finalizing twice *)
(* retains one empty transaction more than finalizing once.                *)
(***************************************************************************)
C14_EmptyFinalizeAppendsEmpty ==
    /\ [][EmptyFinalization =>
            /\ transactionsizes' = transactionsizes
            /\ transactions' = (IF savetransaction THEN Append(transactions, <<>>)
                                ELSE transactions)
            /\ currentTransaction' = <<>>
            /\ manualTransaction' = FALSE]_vars
    /\ []((base = "transaction" /\ currentTransaction = <<>>) =>
            LET once == finalize_transaction(Objs)
                twice == finalize_transaction(once)
            IN /\ twice.transactionsizes = once.transactionsizes
               /\ once.transactionsizes = transactionsizes
               /\ twice.currentTransaction = <<>> /\ ~twice.manualTransaction
               /\ twice.transactions = (IF savetransaction
                                        THEN Append(once.transactions, <<>>)
                                        ELSE once.transactions))

C14_Witness ==
    /\ savetransaction
    /\ stats
    /\ input = <<kwBEGIN, kwCOMMIT, kwCOMMIT>>
    /\ transactions = << <<>>, <<>> >>
    /\ transactionsizes = <<>>
    /\ ~manualTransaction

(***************************************************************************)
(* C15: after calcstats on a non-empty transactionsizes that               *)
(* handle_statement produced, largest is the maximum and smallest the      *)
(* minimum of the samples and mean is their sum over their number; no      *)
(* sample is 0, so the tests for the unset extreme replace no real one.    *)
(* For [1, 1, 1, 3]: smallest 1, largest 3, mean 6/4, variance 1.          *)
(***************************************************************************)
RECURSIVE SumOf(_)
SumOf(values) == IF values = <<>> THEN 0 ELSE Head(values) + SumOf(Tail(values))

Range(values) == {values[i] : i \in 1..Len(values)}

C15_ExtremesAndMean ==
    (pc = "finished" /\ transactionsizes # <<>>) =>
        /\ 0 \notin Range(transactionsizes)
        /\ largest \in Range(transactionsizes)
        /\ \A v \in Range(transactionsizes) : v <= largest
        /\ smallest \in Range(transactionsizes)
        /\ \A v \in Range(transactionsizes) : smallest <= v
        /\ mean = [num |-> SumOf(transactionsizes), den |-> Len(transactionsizes)]
        /\ (transactionsizes = <<1, 1, 1, 3>>) =>
              /\ smallest = 1 /\ largest = 3
              /\ mean = [num |-> 6, den |-> 4]
              /\ std.num = std.den

C15_Witness ==
    /\ pc = "finished"
    /\ transactionsizes = <<1, 1, 1, 3>>
    /\ largest = 3
    /\ smallest = 1
    /\ calcstats_outcome = "returned None"

(***************************************************************************)
(* C16: the type of a statement is its first whitespace-delimited token: a *)
(* keyword followed by a space, a tab or a newline and more text has that  *)
(* keyword as type ("UPDATE<TAB>t SET x=1" is a write), "COMMIT<NEWLINE>"  *)
(* is a COMMIT, and a statement whose first token is empty or no keyword   *)
(* becomes a pending data statement and is no write.                       *)
(***************************************************************************)
Keywords == {kwBEGIN, kwSTART, kwCOMMIT, kwROLLBACK, kwUPDATE, kwINSERT, kwDELETE}

\* "t SET x=1"
restOfStatement == <<"t", " ", "S", "E", "T", " ", "x", "=", "1">>

C16_FirstWhitespaceToken ==
    /\ \A kw \in Keywords : \A ws \in {" ", "\t", "\n"} :
          LET statement == kw \o <<ws>> \o restOfStatement
          IN /\ manualparsetype(statement) = kw
             /\ Effects(handle_statement(Objs, statement)) = Effects(handle_statement(Objs, kw))
             /\ analyze_statement(statement) = analyze_statement(kw)
    /\ analyze_statement(kwUPDATE \o <<"\t">> \o restOfStatement)
    /\ Effects(handle_statement(Objs, stCommitNl)) = Effects(handle_statement(Objs, kwCOMMIT))
    /\ \A s \in {stEmpty, stLeadingSpace, stSelect} :
          /\ ~analyze_statement(s)
          /\ Effects(handle_statement(Objs, s)) = Effects(handle_statement(Objs, <<"x">>))

(***************************************************************************)
(* C17: handling a BEGIN or START statement sets manualTransaction to true *)
(* and changes nothing else: not currentTransaction, transactionsizes, the *)
(* retained list, total or withwrite, and no sink is invoked, also when    *)
(* statements are pending (a second BEGIN, or BEGIN without autocommit).   *)
(***************************************************************************)
C17_BeginOnlySetsManual ==
    /\ []((base = "transaction") =>
            \A b \in {kwBEGIN, kwSTART, kwBEGIN \o <<"\n">>, kwSTART \o <<" ", "x">>} :
                handle_statement(Objs, b) = [Objs EXCEPT !.manualTransaction = TRUE])
    /\ [][(/\ Len(input') = Len(input) + 1
           /\ IsBegin(input'[Len(input')]))
              => /\ manualTransaction' = TRUE
                 /\ UNCHANGED <<currentTransaction, transactionsizes, transactions,
                                total, withwrite, finalized, delivered, statistics>>]_vars

C17_Witness ==
    /\ autocommit
    /\ input = <<kwBEGIN, stUpdate, kwBEGIN>>
    /\ currentTransaction = <<stUpdate>>
    /\ manualTransaction
    /\ finalized = <<>>

(***************************************************************************)
(* C18: the finalized transactions, in order, followed by the pending one  *)
(* are the data statements of the input in arrival order; the samples and  *)
(* the pending statements add up to the number of data statements; what    *)
(* is pending (also when the input has ended) is in no delivered or        *)
(* retained transaction, in no sample and in no counter.                   *)
(***************************************************************************)
C18_StatementsConserved ==
    (base = "transaction") =>
        LET data == SelectSeq(input, IsData)
            done == SubSeq(data, 1, Len(data) - Len(currentTransaction))
        IN /\ Flatten(finalized) \o currentTransaction = data
           /\ Flatten(finalized) = done
           /\ stats => SumOf(transactionsizes) + Len(currentTransaction) = Len(data)
           /\ stats => SumOf(transactionsizes) = Len(done)
           /\ transactioncallback =>
                 /\ Flatten(delivered) = done
                 /\ total = Len(finalized)
                 /\ withwrite = Count(finalized, HasWrite)
           /\ savetransaction => Flatten(transactions) = done

C18_Witness ==
    /\ pc = "finished"
    /\ transactioncallback
    /\ stats
    /\ input = <<stSelect, kwBEGIN, stUpdate>>
    /\ currentTransaction = <<stUpdate>>
    /\ transactionsizes = <<1>>
    /\ total = 1
    /\ withwrite = 0

(***************************************************************************)
(* C19: with autocommit, between two handle_statement calls a non-empty    *)
(* currentTransaction implies manualTransaction; and, whatever autocommit  *)
(* is, after a call that finalized, manualTransaction is false and nothing *)
(* is pending.                                                             *)
(***************************************************************************)
C19_PendingOnlyInManualTransaction ==
    /\ []((autocommit /\ base = "transaction") =>
            (currentTransaction # <<>> => manualTransaction))
    /\ []((base = "transaction") =>
            \A s \in AllStatements :
                LET after == handle_statement(Objs, s)
                IN Len(after.finalized) > Len(finalized) =>
                      ~after.manualTransaction /\ after.currentTransaction = <<>>)
    /\ [][(Len(input') = Len(input) + 1 /\ Len(finalized') > Len(finalized))
              => ~manualTransaction' /\ currentTransaction' = <<>>]_vars

C19_Witness ==
    /\ autocommit
    /\ input = <<kwBEGIN, stUpdate, kwCOMMIT, kwBEGIN>>
    /\ Len(finalized) = 1
    /\ manualTransaction
    /\ currentTransaction = <<>>

(***************************************************************************)
(* C20: with retention, the retained list is the list of the finalized     *)
(* transactions: a step only appends to it, entry i stays the i-th         *)
(* finalized transaction, and a statement handled later goes to            *)
(* currentTransaction and into no retained or delivered transaction.       *)
(***************************************************************************)
C20_RetainedNeverChanges ==
    /\ []((savetransaction /\ base = "transaction") => transactions = finalized)
    /\ [][/\ Len(transactions') >= Len(transactions)
          /\ SubSeq(transactions', 1, Len(transactions)) = transactions
          /\ SubSeq(delivered', 1, Len(delivered)) = delivered
          /\ (finalized' = finalized) =>
                (transactions' = transactions /\ delivered' = delivered)]_vars

C20_Witness ==
    /\ savetransaction
    /\ ~autocommit
    /\ input = <<stUpdate, kwCOMMIT, stSelect, stUpdate>>
    /\ transactions = << <<stUpdate>> >>
    /\ currentTransaction = <<stSelect, stUpdate>>

=============================================================================
